---------------------------- MODULE Spec2Model ----------------------------
(***************************************************************************)
(* Model of src/prolog/compile.rs: the relation compiler (compile_relation, *)
(* set_first_index, compile_appendix), the query compiler (compile_query),  *)
(* the top-level packet evaluator (compile_decl, compile_packet) and the    *)
(* listing compiler (ListingCompiler, compile_listing,                      *)
(* compile_user_module).                                                    *)
(*                                                                         *)
(* The code generator, the parser and the Machine are collaborators whose   *)
(* code is outside compile.rs; they are modelled by what compile.rs         *)
(* consumes from them.                                                      *)
(***************************************************************************)
EXTENDS Integers, Sequences, FiniteSets, TLC

VARIABLES
    pc,                   \* position of the running call
    tl,                   \* the unit / packet being compiled
    queue,                \* compile_appendix: queue
    qi,                   \* compile_appendix: number of queue units consumed
    code,                 \* the Code under construction (&mut Code)
    code0,                \* the Code as it was when the running call began
    non_counted_bt,       \* the non_counted_bt argument in force
    caller,               \* which function runs compile_appendix
    result,               \* the value returned (Result / EvalSession)
    wam,                  \* the Machine: code, code_dir, op_dir, modules
    heap,                 \* the CodeIndex cells (shared, mutable)
    wam0,                 \* the Machine when the running call began
    heap0,                \* the CodeIndex cells when the running call began
    calls,                \* Machine primitives invoked by the running call
    indices,              \* MachineCodeIndices: the working bundle
    module,               \* ListingCompiler.module
    non_counted_bt_preds, \* ListingCompiler.non_counted_bt_preds
    results,              \* TopLevelBatchWorker.results
    decl,                 \* the declaration consume() has just yielded
    out,                  \* generate_code: code
    gi,                   \* generate_code: number of groups finished
    p,                    \* generate_code: p
    written,              \* generate_code: the index writes made, in order
    trace,                \* compile_appendix: what each iteration saw and patched
    consumed              \* compile_listing: declarations consume() has yielded

vars == << pc, tl, queue, qi, code, code0, non_counted_bt, caller, result,
           wam, heap, wam0, heap0, calls, indices, module,
           non_counted_bt_preds, results, decl, out, gi, p, written,
           trace, consumed >>

appendixVars == << queue, qi, code, non_counted_bt, trace >>
appendixVars_but_code == << queue, qi, non_counted_bt, trace >>
machineVars == << wam, heap, wam0, heap0, calls >>
listingVars == << indices, module, non_counted_bt_preds, results, decl,
                  out, gi, p, written, consumed >>

-----------------------------------------------------------------------------
(* Bounds of the model *)

\* longest Code given to set_first_index on its own
MaxLen == 4
\* longest appendix queue
MaxQueue == 3
\* largest jump offset already resolved in an input Code
MaxOffset == 2
\* longest queue of a top-level packet
MaxPacketQueue == 2
\* most Lines of user code installed in the machine before the call
MaxUserCode == 1
\* most declarations of a listing
MaxDecls == 3
\* most (Predicate, queue) groups of a listing
MaxGroups == 2

-----------------------------------------------------------------------------
(* Code: a sequence of Lines.  A Line keeps what compile.rs reads or writes: *)
(* its kind, the offset of a Control(JmpBy) and the statistics tag that the  *)
(* non_counted_bt flag puts on a choice instruction.                         *)

FactLine == [op |-> "Fact", offset |-> 0, ncbt |-> FALSE]
QueryLine == [op |-> "Query", offset |-> 0, ncbt |-> FALSE]
ChoiceLine(flag) == [op |-> "Choice", offset |-> 0, ncbt |-> flag]
JmpBy(offset) == [op |-> "JmpBy", offset |-> offset, ncbt |-> FALSE]

\* Line::Control(ControlInstruction::JmpBy(_, ref mut offset, ..)) if *offset == 0
IsPendingJmp(line) == line.op = "JmpBy" /\ line.offset = 0

\* Result<_, _>
Ok(v) == [ok |-> TRUE, val |-> v, err |-> "none"]
Err(e) == [ok |-> FALSE, val |-> << >>, err |-> e]

-----------------------------------------------------------------------------
(* TopLevel units *)

NoName == "<none>"

\* Declaration
NoDecl == [kind |-> "none", name |-> "", keys |-> {}, valid |-> TRUE]
OpDecl(op, valid) == [kind |-> "Op", name |-> op, keys |-> {}, valid |-> valid]
UseModule(m) == [kind |-> "UseModule", name |-> m, keys |-> {}, valid |-> TRUE]
UseQualifiedModule(m, exports) ==
    [kind |-> "UseQualifiedModule", name |-> m, keys |-> exports, valid |-> TRUE]
ModuleDecl(m, exports) ==
    [kind |-> "Module", name |-> m, keys |-> exports, valid |-> TRUE]
NonCountedBacktracking(key) ==
    [kind |-> "NonCountedBacktracking", name |-> "", keys |-> {key}, valid |-> TRUE]

\* TopLevel: its kind, what name() and arity() give, the ClauseType its name
\* and arity classify as, and what the code generator makes of it (the Code,
\* or an error; for a query also the variable dictionary)
TopLevel(type, name, ctype, body, gen_err) ==
    [type |-> type, decl |-> NoDecl, name |-> name, arity |-> 1,
     ctype |-> ctype, body |-> body, gen_err |-> gen_err, vars |-> {}]

Declaration(d) ==
    [type |-> "Declaration", decl |-> d, name |-> NoName, arity |-> 0,
     ctype |-> "none", body |-> << >>, gen_err |-> FALSE, vars |-> {}]

\* the statistics tag of the choice instructions is the generator's flag
Tagged(body, flag) ==
    [i \in 1..Len(body) |->
        IF body[i].op = "Choice" THEN ChoiceLine(flag) ELSE body[i]]

\* CodeGenerator::compile_fact: infallible
compile_fact(fact, flag) == Tagged(fact.body, flag)

\* CodeGenerator::compile_rule: Result<Code, ParserError>
compile_rule(rule, flag) ==
    IF rule.gen_err THEN Err("GeneratorError") ELSE Ok(Tagged(rule.body, flag))

\* CodeGenerator::compile_predicate: Result<Code, ParserError>
compile_predicate(clauses, flag) ==
    IF clauses.gen_err THEN Err("GeneratorError")
    ELSE Ok(Tagged(clauses.body, flag))

\* compile_relation without the Declaration | Query arm: such a unit yields no
\* Lines instead of ExpectedRel
compile_relation_any_unit(unit, non_counted_bt_arg) ==
    CASE unit.type = "Predicate" -> compile_predicate(unit, non_counted_bt_arg)
      [] unit.type = "Fact" -> Ok(compile_fact(unit, non_counted_bt_arg))
      [] unit.type = "Rule" -> compile_rule(unit, non_counted_bt_arg)
      [] OTHER -> Ok(<< >>)

compile_relation(unit, non_counted_bt_arg) ==
    CASE unit.type \in {"Declaration", "Query"} -> Err("ExpectedRel")
      [] unit.type = "Predicate" -> compile_predicate(unit, non_counted_bt_arg)
      [] unit.type = "Fact" -> Ok(compile_fact(unit, non_counted_bt_arg))
      [] unit.type = "Rule" -> compile_rule(unit, non_counted_bt_arg)

-----------------------------------------------------------------------------
(* set_first_index: the scan of code.iter_mut().enumerate(), 0-based idx *)

RECURSIVE scan_from(_, _, _)
scan_from(c, idx, code_len) ==
    IF idx >= code_len THEN c
    ELSE IF IsPendingJmp(c[idx + 1])
         THEN [c EXCEPT ![idx + 1].offset = code_len - idx]
         ELSE scan_from(c, idx + 1, code_len)

\* the scan without its break: every pending placeholder is patched
RECURSIVE scan_all_from(_, _, _)
scan_all_from(c, idx, code_len) ==
    IF idx >= code_len THEN c
    ELSE IF IsPendingJmp(c[idx + 1])
         THEN scan_all_from([c EXCEPT ![idx + 1].offset = code_len - idx],
                            idx + 1, code_len)
         ELSE scan_all_from(c, idx + 1, code_len)

set_all_indices(c) == scan_all_from(c, 0, Len(c))

set_first_index(c) == scan_from(c, 0, Len(c))

-----------------------------------------------------------------------------
(* The Machine and the CodeIndex cells *)

\* PredicateKey: (name, arity)
Keys == { <<"foo", 1>>, <<"bar", 1>>, <<"baz", 2>> }

\* IndexPtr
Undefined == [tag |-> "Undefined", p |-> 0]
Index(addr) == [tag |-> "Index", p |-> addr]

\* CodeIndex::default()
DefaultCodeIndex == [ptr |-> Undefined, module_name |-> ""]

\* an empty directory (HashMap::new())
EmptyDir == [k \in {} |-> 0]

\* HashMap::extend / insert of every entry of src into dst
Extend(dst, src) ==
    [k \in DOMAIN dst \cup DOMAIN src |-> IF k \in DOMAIN src THEN src[k] ELSE dst[k]]

\* the entries of dir under the keys of ks
Restrict(dir, ks) == [k \in DOMAIN dir \cap ks |-> dir[k]]

EmptyMachine ==
    [code |-> << >>, code_dir |-> EmptyDir, op_dir |-> EmptyDir, modules |-> EmptyDir]

NoUnit == TopLevel("none", NoName, "none", << >>, FALSE)
\* Option<Module>: None, and Some(Module::new(module_decl))
NoModule == [some |-> FALSE, name |-> "", exports |-> {}, code_dir |-> EmptyDir,
             op_dir |-> EmptyDir]
NewModule(module_decl) ==
    [some |-> TRUE, name |-> module_decl.name, exports |-> module_decl.keys,
     code_dir |-> EmptyDir, op_dir |-> EmptyDir]
NoCalls == << >>
NoIndices == [code_dir |-> EmptyDir, op_dir |-> EmptyDir]
NoResult == "running"

\* the values of the variables a specification does not use
NoAppendix ==
    /\ queue = << >>
    /\ qi = 0
    /\ non_counted_bt = FALSE
    /\ trace = << >>
NoMachine ==
    /\ wam = EmptyMachine
    /\ heap = << >>
    /\ wam0 = EmptyMachine
    /\ heap0 = << >>
    /\ calls = NoCalls
NoListing ==
    /\ indices = NoIndices
    /\ module = NoModule
    /\ non_counted_bt_preds = {}
    /\ results = << >>
    /\ decl = NoDecl
    /\ out = << >>
    /\ gi = 0
    /\ p = 0
    /\ written = << >>
    /\ consumed = 0

\* the sequences over S of length at most n
SeqUpTo(S, n) == UNION { [1..k -> S] : k \in 0..n }

Min(S) == CHOOSE x \in S : \A y \in S : x <= y

-----------------------------------------------------------------------------
(* SpecPatch: set_first_index applied, twice in a row, to any Code *)

PatchLines == { FactLine } \cup { JmpBy(n) : n \in 0..MaxOffset }

InitPatch ==
    /\ pc = "entry"
    /\ code \in SeqUpTo(PatchLines, MaxLen)
    /\ code0 = code
    /\ tl = NoUnit
    /\ caller = "set_first_index"
    /\ result = NoResult
    /\ NoAppendix /\ NoMachine /\ NoListing

SetFirstIndex ==
    /\ pc \in {"entry", "once"}
    /\ code0' = code
    /\ code' = set_first_index(code)
    /\ pc' = IF pc = "entry" THEN "once" ELSE "twice"
    /\ UNCHANGED << tl, caller, result, appendixVars_but_code, machineVars, listingVars >>

NextPatch == SetFirstIndex

SpecPatch == InitPatch /\ [][NextPatch]_vars

\* the 1-based positions of the pending placeholders of c
Pending(c) == { i \in 1..Len(c) : IsPendingJmp(c[i]) }

\* C6: set_first_index leaves a Code without a pending placeholder unchanged;
\* otherwise it changes exactly one Line, the lowest-index JmpBy with offset 0,
\* whose offset becomes (code length - its 0-based index) >= 1, so that it is
\* not pending any more; every other Line and the length are unchanged.
C6_SetFirstIndexPatchesLowestPending ==
    pc \in {"once", "twice"} =>
        /\ Len(code) = Len(code0)
        /\ IF Pending(code0) = {}
           THEN code = code0
           ELSE LET j == Min(Pending(code0)) IN
                /\ code[j] = JmpBy(Len(code0) - (j - 1))
                /\ code[j].offset >= 1
                /\ \A i \in 1..Len(code0) : i # j => code[i] = code0[i]
                /\ Pending(code) = Pending(code0) \ {j}

\* the second call patched a placeholder that lies after the one the first
\* call patched
C6_Witness ==
    /\ pc = "twice"
    /\ Pending(code0) # {}
    /\ code # code0
    /\ \E i \in 1..Len(code0) :
          /\ i < Min(Pending(code0))
          /\ code0[i] = JmpBy(Len(code0) - (i - 1))

-----------------------------------------------------------------------------
(* compile_appendix, one iteration of its loop at a time, and its callers' *)
(* continuations                                                           *)

\* where the caller goes on after compile_appendix returned Ok(())
AfterAppendix(c) ==
    CASE c = "compile_appendix" -> "done"
      [] c = "compile_query" -> "submit_query"
      [] c = "compile_decl" -> "add_user_code"
      [] c = "generate_code" -> "set_code_index"

\* for tl in queue.iter() { code.append(..) before set_first_index(code) }
AppendixIterAppendFirst ==
    /\ pc = "compile_appendix"
    /\ qi < Len(queue)
    /\ LET r == compile_relation(queue[qi + 1], non_counted_bt)
           appended == IF r.ok THEN code \o r.val ELSE code
           patched == set_first_index(appended)
       IN  /\ trace' = Append(trace,
                  [pending |-> Pending(code),
                   changed |-> { i \in 1..Len(code) : patched[i] # code[i] },
                   start |-> Len(code)])
           /\ code' = patched
           /\ IF r.ok
              THEN /\ qi' = qi + 1
                   /\ UNCHANGED << pc, result >>
              ELSE /\ pc' = "done"
                   /\ result' = r.err
                   /\ UNCHANGED qi
    /\ UNCHANGED << tl, queue, code0, non_counted_bt, caller, machineVars,
                    listingVars >>

\* for tl in queue.iter() { code.append(..) } with the patch left out
AppendixIterNoPatch ==
    /\ pc = "compile_appendix"
    /\ qi < Len(queue)
    /\ LET r == compile_relation(queue[qi + 1], non_counted_bt)
       IN  /\ trace' = Append(trace,
                  [pending |-> Pending(code), changed |-> {}, start |-> Len(code)])
           /\ IF r.ok
              THEN /\ code' = code \o r.val
                   /\ qi' = qi + 1
                   /\ UNCHANGED << pc, result >>
              ELSE /\ code' = code
                   /\ pc' = "done"
                   /\ result' = r.err
                   /\ UNCHANGED qi
    /\ UNCHANGED << tl, queue, code0, non_counted_bt, caller, machineVars,
                    listingVars >>

\* an appendix whose units are compiled with a flag looked up under their
\* own name and arity
AppendixIterOwnFlag ==
    /\ pc = "compile_appendix"
    /\ qi < Len(queue)
    /\ LET patched == set_first_index(code)
           unit == queue[qi + 1]
           r == compile_relation(unit,
                    << unit.name, unit.arity >> \in non_counted_bt_preds)
       IN  /\ trace' = Append(trace,
                  [pending |-> Pending(code),
                   changed |-> { i \in 1..Len(code) : patched[i] # code[i] },
                   start |-> Len(code)])
           /\ IF r.ok
              THEN /\ code' = patched \o r.val
                   /\ qi' = qi + 1
                   /\ UNCHANGED << pc, result >>
              ELSE /\ code' = patched
                   /\ pc' = "done"
                   /\ result' = r.err
                   /\ UNCHANGED qi
    /\ UNCHANGED << tl, queue, code0, non_counted_bt, caller, machineVars,
                    listingVars >>

\* for tl in queue.iter() { set_first_index(code);
\*                          code.append(&mut compile_relation(tl, ..)?); }
AppendixIter ==
    /\ pc = "compile_appendix"
    /\ qi < Len(queue)
    /\ LET patched == set_first_index(code)
           r == compile_relation(queue[qi + 1], non_counted_bt)
       IN  /\ trace' = Append(trace,
                  [pending |-> Pending(code),
                   changed |-> { i \in 1..Len(code) : patched[i] # code[i] },
                   start |-> Len(code)])
           /\ IF r.ok
              THEN /\ code' = patched \o r.val
                   /\ qi' = qi + 1
                   /\ UNCHANGED << pc, result >>
              ELSE /\ code' = patched
                   /\ pc' = "done"
                   /\ result' = r.err
                   /\ UNCHANGED qi
    /\ UNCHANGED << tl, queue, code0, non_counted_bt, caller, machineVars,
                    listingVars >>

\* Ok(()) once the queue is exhausted
AppendixReturn ==
    /\ pc = "compile_appendix"
    /\ qi = Len(queue)
    /\ pc' = AfterAppendix(caller)
    /\ result' = IF caller = "compile_appendix" THEN "Ok" ELSE result
    /\ UNCHANGED << tl, code0, caller, appendixVars, machineVars, listingVars >>

-----------------------------------------------------------------------------
(* SpecAppendix: compile_appendix on the Code of a primary unit and a queue *)

Fact(name, ctype) == TopLevel("Fact", name, ctype, << FactLine >>, FALSE)
Rule(name, ctype) == TopLevel("Rule", name, ctype, << JmpBy(0), FactLine >>, FALSE)
RuleErr(name, ctype) == TopLevel("Rule", name, ctype, << >>, TRUE)
Predicate(name, ctype) ==
    TopLevel("Predicate", name, ctype,
             << ChoiceLine(FALSE), JmpBy(0), FactLine >>, FALSE)
PredicateErr(name, ctype) == TopLevel("Predicate", name, ctype, << >>, TRUE)
Query == TopLevel("Query", NoName, "none", << QueryLine >>, FALSE)
\* a Predicate without clauses, for which no code is generated
EmptyPredicate(name, ctype) == TopLevel("Predicate", name, ctype, << >>, FALSE)

\* the units a queue is drawn from
AuxUnits ==
    { Fact("aux", "Named"), Rule("aux", "Named"), Predicate("aux", "Named"),
      EmptyPredicate("aux", "Named"), RuleErr("aux", "Named"), Query, Declaration(OpDecl("===", TRUE)),
      Declaration(ModuleDecl("mymod", {})) }

\* the Code of a primary unit, as compile_relation / compile_query left it
PrimaryCodes ==
    { << FactLine >>, << JmpBy(0), FactLine >>,
      << JmpBy(0), JmpBy(0), FactLine >> }

InitAppendix ==
    /\ pc = "compile_appendix"
    /\ caller = "compile_appendix"
    /\ code \in PrimaryCodes
    /\ code0 = code
    /\ queue \in SeqUpTo(AuxUnits, MaxQueue)
    /\ qi = 0
    /\ non_counted_bt \in BOOLEAN
    /\ trace = << >>
    /\ tl = NoUnit
    /\ result = NoResult
    /\ NoMachine /\ NoListing

NextAppendix ==
    \/ AppendixIter
    \/ AppendixReturn

SpecAppendix == InitAppendix /\ [][NextAppendix]_vars

\* the Code compile_relation yields for the k-th queued unit on its own
UnitCode(k) == compile_relation(queue[k], non_counted_bt).val

\* the 0-based index at which the block of the k-th queued unit begins
RECURSIVE BlockStart(_)
BlockStart(k) ==
    IF k = 1 THEN Len(code0) ELSE BlockStart(k - 1) + Len(UnitCode(k - 1))

\* the Lines of the k-th unit's block as they stand in code
Block(k) == SubSeq(code, BlockStart(k) + 1, BlockStart(k) + Len(UnitCode(k)))

\* b is the Code c, up to the offsets of placeholders resolved since
SameButOffsets(b, c) ==
    /\ Len(b) = Len(c)
    /\ \A i \in 1..Len(c) :
          \/ b[i] = c[i]
          \/ IsPendingJmp(c[i]) /\ b[i].op = "JmpBy" /\ b[i].offset >= 1

Failed == pc = "done" /\ result # "Ok"
Succeeded == pc = "done" /\ result = "Ok"

\* C7: compile_appendix makes one resolution attempt per queued unit, right
\* before that unit's block is appended; the attempt changes the lowest-index
\* pending placeholder if there is one (and nothing otherwise), giving it the
\* offset for which (its index + offset) is the index where that unit's block
\* begins in the code; the placeholders are resolved in strictly increasing
\* index order.
C7_ForwardJumpsResolvedInOrder ==
    /\ Len(trace) = IF Failed THEN qi + 1 ELSE qi
    /\ \A k \in 1..Len(trace) :
          LET t == trace[k] IN
          /\ t.start = BlockStart(k)
          /\ t.changed = IF t.pending = {} THEN {} ELSE { Min(t.pending) }
          /\ \A j \in t.changed :
                /\ code[j].op = "JmpBy"
                /\ (j - 1) + code[j].offset = BlockStart(k)
          /\ k <= qi => SameButOffsets(Block(k), UnitCode(k))
          /\ \A m \in 1..(k - 1) :
                \A i \in trace[m].changed : \A j \in t.changed : i < j

\* three units were appended and each attempt resolved a placeholder, the
\* last one inside the block of an earlier queued unit
C7_Witness ==
    /\ Succeeded
    /\ Len(queue) = 3
    /\ \A k \in 1..3 : trace[k].changed # {}
    /\ \E j \in trace[3].changed : j > Len(code0)

\* C8: for a queue [A, B] the result is patch(patch(code) ++ compile(A)) ++
\* compile(B); for any queue, each unit's block has the instruction count of
\* the unit compiled on its own and the same Lines up to resolved offsets, and
\* begins where the blocks before it end: the queue order moves the blocks and
\* sets the offsets, and nothing else.
C8_AppendixSplicing ==
    Succeeded =>
        /\ Len(queue) = 2 =>
              code = set_first_index(set_first_index(code0) \o UnitCode(1))
                        \o UnitCode(2)
        /\ \A k \in 1..Len(queue) :
              /\ Len(Block(k)) = Len(UnitCode(k))
              /\ SameButOffsets(Block(k), UnitCode(k))
        /\ SameButOffsets(SubSeq(code, 1, Len(code0)), code0)
        /\ Len(code) = BlockStart(Len(queue) + 1)

\* a queue of two different units, the second one starting after the first
\* one's three Lines, with a placeholder resolved at either boundary
C8_Witness ==
    /\ Succeeded
    /\ Len(queue) = 2
    /\ queue[1].type = "Predicate"
    /\ queue[2].type = "Rule"
    /\ BlockStart(2) = Len(code0) + 3
    /\ trace[1].changed # {}
    /\ trace[2].changed # {}

\* C9: compile_relation fails with ExpectedRel on every Query and Declaration
\* unit and never fails on a Fact, so compile_appendix ends in ExpectedRel at
\* the first Query or Declaration it reaches and never succeeds on a queue
\* that holds one.
C9_ExpectedRel ==
    /\ \A k \in 1..Len(queue) :
          /\ queue[k].type \in {"Query", "Declaration"} =>
                compile_relation(queue[k], non_counted_bt) = Err("ExpectedRel")
          /\ queue[k].type = "Fact" =>
                /\ compile_relation(queue[k], non_counted_bt).ok
                /\ Len(UnitCode(k)) >= 1
    /\ Succeeded =>
          \A k \in 1..Len(queue) : queue[k].type \notin {"Query", "Declaration"}
    /\ Failed =>
          /\ queue[qi + 1].type # "Fact"
          /\ queue[qi + 1].type \in {"Query", "Declaration"} =>
                result = "ExpectedRel"
          /\ \A k \in 1..qi : queue[k].type \notin {"Query", "Declaration"}

\* a Fact was appended, then a Declaration stopped the loop
C9_Witness ==
    /\ Failed
    /\ result = "ExpectedRel"
    /\ qi = 1
    /\ queue[1].type = "Fact"
    /\ queue[2] = Declaration(ModuleDecl("mymod", {}))
    /\ Len(code) = Len(code0) + 1

-----------------------------------------------------------------------------
(* The Machine's primitives and the states a Machine is in before a call *)

FooKey == <<"foo", 1>>
BarKey == <<"bar", 1>>
BazKey == <<"baz", 2>>

\* the directory holding the single entry k -> v
Entry(k, v) == [x \in {k} |-> v]

\* SubModuleUser::use_qualified_module: the entries of submodule's exported
\* keys among ks, and the operators those keys name, are put into dest; the
\* CodeIndex put there is the submodule's own cell
ImportKeys(dest, submodule, ks) ==
    LET ex == ks \cap submodule.exports
        ops == { o \in DOMAIN submodule.op_dir : \E k \in ex : k[1] = o }
    IN  [dest EXCEPT
            !.code_dir = Extend(@, Restrict(submodule.code_dir, ex)),
            !.op_dir = Extend(@, Restrict(submodule.op_dir, ops))]

\* SubModuleUser::use_module: every export
ImportAll(dest, submodule) == ImportKeys(dest, submodule, submodule.exports)

\* Machine::code_size
code_size(m) == Len(m.code)

\* Machine::get_module
HasModule(m, name) == name \in DOMAIN m.modules

BuiltinsModule ==
    [some |-> TRUE, name |-> "builtins", exports |-> { FooKey },
     code_dir |-> Entry(FooKey, 1), op_dir |-> Entry("foo", "builtins")]
ListsModule ==
    [some |-> TRUE, name |-> "lists", exports |-> { BarKey, BazKey },
     code_dir |-> Extend(Entry(BarKey, 2), Entry(BazKey, 3)),
     op_dir |-> Entry("baz", "lists")]

\* a Machine into which nothing was loaded
BareMachine == << EmptyMachine, << >> >>
\* a Machine with the builtins loaded and imported by the top level
BuiltinsMachine ==
    << [code |-> << FactLine, FactLine >>,
        code_dir |-> Entry(FooKey, 1),
        op_dir |-> Entry("foo", "builtins"),
        modules |-> Entry("builtins", BuiltinsModule)],
       << [ptr |-> Index(0), module_name |-> "builtins"] >> >>
\* the same with a module lists loaded besides, not imported by the top level
ListsMachine ==
    << [code |-> << FactLine, FactLine, FactLine, FactLine >>,
        code_dir |-> Entry(FooKey, 1),
        op_dir |-> Entry("foo", "builtins"),
        modules |-> Extend(Entry("builtins", BuiltinsModule),
                           Entry("lists", ListsModule))],
       << [ptr |-> Index(0), module_name |-> "builtins"],
          [ptr |-> Index(2), module_name |-> "lists"],
          [ptr |-> Index(3), module_name |-> "lists"] >> >>

UserKey == <<"usr", 0>>

\* n Lines of user code and an operator installed after that at top level:
\* a predicate usr/0 and an operator +++ of the global directories
WithUserCode(m, n) ==
    IF n = 0 THEN m
    ELSE << [m[1] EXCEPT
                !.code = @ \o [i \in 1..n |-> FactLine],
                !.code_dir = Extend(@, Entry(UserKey, Len(m[2]) + 1)),
                !.op_dir = Extend(@, Entry("+++", "user"))],
            Append(m[2], [ptr |-> Index(Len(m[1].code)), module_name |-> "user"]) >>

Machines ==
    { WithUserCode(m, n) :
        m \in { BareMachine, BuiltinsMachine, ListsMachine }, n \in 0..MaxUserCode }

InitMachine ==
    /\ \E m \in Machines :
          /\ wam = m[1]
          /\ heap = m[2]
    /\ wam0 = wam
    /\ heap0 = heap
    /\ calls = << >>

\* the calls of the primitive fn made so far
CallsOf(fn) == { i \in 1..Len(calls) : calls[i].fn = fn }

Call(fn, c, v, ret) == [fn |-> fn, code |-> c, arg |-> v, ret |-> ret]

\* Machine::add_user_code: the code goes to the end of the code segment and
\* (name, arity) is entered under "user" at the address where it begins
add_user_code(m, h, key, c) ==
    IF key \in DOMAIN m.code_dir
    THEN << [m EXCEPT !.code = @ \o c],
            [h EXCEPT ![m.code_dir[key]] =
                [ptr |-> Index(Len(m.code)), module_name |-> "user"]] >>
    ELSE << [m EXCEPT !.code = @ \o c,
                      !.code_dir = Extend(@, Entry(key, Len(h) + 1))],
            Append(h, [ptr |-> Index(Len(m.code)), module_name |-> "user"]) >>

-----------------------------------------------------------------------------
(* compile_packet, compile_query, compile_decl *)

\* CodeGenerator::compile_query: Result<Code, ParserError>
cg_compile_query(terms) ==
    IF terms.gen_err THEN Err("GeneratorError") ELSE Ok(Tagged(terms.body, FALSE))

\* CodeGenerator::take_vars
take_vars(terms) == terms.vars

\* ClauseType::from(name, arity, None)
ClauseTypes == { "Named", "Op", "BuiltIn", "Inlined", "CallN" }
ClauseTypeFrom(unit) == unit.ctype

\* the match of compile_decl with every ClauseType let through
PermittedAnyClauseType(ctype) == TRUE

\* ClauseType::Named(..) | ClauseType::Op(..) => Ok(name)
PermittedClauseType(ctype) == ctype \in { "Named", "Op" }

\* the name a Fact / Rule / Predicate is entered under, or the SessionError
EntryName(unit) ==
    IF unit.name # NoName
    THEN IF PermittedClauseType(ClauseTypeFrom(unit))
         THEN Ok(unit.name)
         ELSE Err("ImpermissibleEntry(name/arity)")
    ELSE Err("NamelessEntry")

IsClause(unit) == unit.type \in { "Fact", "Rule", "Predicate" }

packetFrame == << tl, queue, caller, heap0, wam0, listingVars >>

\* compile_packet, TopLevelPacket::Query: compile_query up to its call of
\* compile_appendix(&mut code, queue, false, flags)
CompileQuery ==
    /\ pc = "compile_packet"
    /\ tl.type = "Query"
    /\ LET r == cg_compile_query(tl) IN
       IF r.ok
       THEN /\ code' = r.val
            /\ code0' = r.val
            /\ non_counted_bt' = FALSE
            /\ pc' = "compile_appendix"
            /\ UNCHANGED result
       ELSE /\ result' = r.err
            /\ pc' = "done"
            /\ UNCHANGED << code, code0, non_counted_bt >>
    /\ UNCHANGED << packetFrame, qi, trace, wam, heap, calls >>

\* submit_query called and its outcome replaced by EntrySuccess
SubmitQueryEntrySuccess ==
    /\ pc = "submit_query"
    /\ \E outcome \in { "QuerySuccess", "QueryFailure" } :
          /\ calls' = Append(calls, Call("submit_query", code, take_vars(tl), outcome))
          /\ result' = "EntrySuccess"
    /\ pc' = "done"
    /\ UNCHANGED << packetFrame, code0, appendixVars, wam, heap >>

\* Ok((mut code, vars)) => wam.submit_query(code, vars)
SubmitQuery ==
    /\ pc = "submit_query"
    /\ \E outcome \in { "QuerySuccess", "QueryFailure" } :
          /\ calls' = Append(calls, Call("submit_query", code, take_vars(tl), outcome))
          /\ result' = outcome
    /\ pc' = "done"
    /\ UNCHANGED << packetFrame, code0, appendixVars, wam, heap >>

\* compile_decl, Declaration::Op: op_decl.submit("user", &mut wam.op_dir)
CompileDeclOp ==
    /\ pc = "compile_packet"
    /\ tl.type = "Declaration"
    /\ tl.decl.kind = "Op"
    /\ IF tl.decl.valid
       THEN /\ wam' = [wam EXCEPT !.op_dir = Extend(@, Entry(tl.decl.name, "user"))]
            /\ result' = "EntrySuccess"
       ELSE /\ result' = "OpSubmitError"
            /\ UNCHANGED wam
    /\ pc' = "done"
    /\ UNCHANGED << packetFrame, code0, appendixVars, heap, calls >>

\* compile_decl, Declaration::UseModule / UseQualifiedModule: delegated to
\* wam.use_module_in_toplevel / wam.use_qualified_module_in_toplevel
CompileDeclUse ==
    /\ pc = "compile_packet"
    /\ tl.type = "Declaration"
    /\ tl.decl.kind \in { "UseModule", "UseQualifiedModule" }
    /\ IF HasModule(wam, tl.decl.name)
       THEN LET sub == wam.modules[tl.decl.name]
                ks == IF tl.decl.kind = "UseModule" THEN sub.exports ELSE tl.decl.keys
                to == ImportKeys([code_dir |-> wam.code_dir, op_dir |-> wam.op_dir],
                                 sub, ks)
            IN  /\ wam' = [wam EXCEPT !.code_dir = to.code_dir, !.op_dir = to.op_dir]
                /\ result' = "EntrySuccess"
       ELSE /\ result' = "ModuleNotFound"
            /\ UNCHANGED wam
    /\ pc' = "done"
    /\ UNCHANGED << packetFrame, code0, appendixVars, heap, calls >>

\* compile_decl, TopLevel::Declaration(_)
CompileDeclOther ==
    /\ pc = "compile_packet"
    /\ tl.type = "Declaration"
    /\ tl.decl.kind \notin { "Op", "UseModule", "UseQualifiedModule" }
    /\ result' = "InvalidModuleDecl"
    /\ pc' = "done"
    /\ UNCHANGED << packetFrame, code0, appendixVars, machineVars >>

\* compile_decl, any other TopLevel: the name, then compile_relation, up to the
\* call of compile_appendix(&mut code, queue, false, flags)
CompileDeclClause ==
    /\ pc = "compile_packet"
    /\ tl.type \notin { "Query", "Declaration" }
    /\ LET name == EntryName(tl)
           r == compile_relation(tl, FALSE)
       IN  IF ~name.ok
           THEN /\ result' = name.err
                /\ pc' = "done"
                /\ UNCHANGED << code, code0, non_counted_bt >>
           ELSE IF ~r.ok
           THEN /\ result' = r.err
                /\ pc' = "done"
                /\ UNCHANGED << code, code0, non_counted_bt >>
           ELSE /\ code' = r.val
                /\ code0' = r.val
                /\ non_counted_bt' = FALSE
                /\ pc' = "compile_appendix"
                /\ UNCHANGED result
    /\ UNCHANGED << packetFrame, qi, trace, wam, heap, calls >>

\* the install without the test of code.is_empty()
AddUserCodeAlways ==
    /\ pc = "add_user_code"
    /\ LET installed == add_user_code(wam, heap, << tl.name, tl.arity >>, code)
       IN  /\ wam' = installed[1]
           /\ heap' = installed[2]
           /\ calls' = Append(calls,
                 Call("add_user_code", code, << tl.name, tl.arity >>, "EntrySuccess"))
           /\ result' = "EntrySuccess"
    /\ pc' = "done"
    /\ UNCHANGED << packetFrame, code0, appendixVars >>

\* if !code.is_empty() { wam.add_user_code(name, tl.arity(), code) }
\* else { ImpermissibleEntry("no code generated.") }
AddUserCode ==
    /\ pc = "add_user_code"
    /\ IF code # << >>
       THEN LET installed == add_user_code(wam, heap, << tl.name, tl.arity >>, code)
            IN  /\ wam' = installed[1]
                /\ heap' = installed[2]
                /\ calls' = Append(calls,
                      Call("add_user_code", code, << tl.name, tl.arity >>,
                           "EntrySuccess"))
                /\ result' = "EntrySuccess"
       ELSE /\ result' = "ImpermissibleEntry(no code generated.)"
            /\ UNCHANGED << wam, heap, calls >>
    /\ pc' = "done"
    /\ UNCHANGED << packetFrame, code0, appendixVars >>

-----------------------------------------------------------------------------
(* SpecPacket: one call of compile_packet *)

QueryTerms(body, gen_err, vs) ==
    [type |-> "Query", decl |-> NoDecl, name |-> NoName, arity |-> 0,
     ctype |-> "none", body |-> body, gen_err |-> gen_err, vars |-> vs]

ClauseShapes(name, ctype) ==
    { Fact(name, ctype), Rule(name, ctype), RuleErr(name, ctype),
      Predicate(name, ctype), EmptyPredicate(name, ctype) }

Declarations ==
    { OpDecl("===", TRUE), OpDecl("===", FALSE), UseModule("lists"),
      UseModule("nomod"), UseQualifiedModule("lists", { BarKey }),
      ModuleDecl("mymod", { FooKey }), NonCountedBacktracking(FooKey) }

\* the primary units of a packet
PacketUnits ==
    UNION { ClauseShapes("foo", ct) : ct \in ClauseTypes }
      \cup ClauseShapes(NoName, "none")
      \cup { QueryTerms(<< QueryLine, JmpBy(0) >>, FALSE, { "X" }),
             QueryTerms(<< QueryLine >>, FALSE, {}),
             QueryTerms(<< >>, TRUE, {}) }
      \cup { Declaration(d) : d \in Declarations }

\* the units the queue of a packet is drawn from
PacketAuxUnits ==
    { Fact("aux", "Named"), Predicate("aux", "Named"), RuleErr("aux", "Named"),
      Query }

InitPacket ==
    /\ pc = "compile_packet"
    /\ tl \in PacketUnits
    /\ queue \in SeqUpTo(PacketAuxUnits, MaxPacketQueue)
    /\ caller = IF tl.type = "Query" THEN "compile_query" ELSE "compile_decl"
    /\ qi = 0
    /\ code = << >>
    /\ code0 = << >>
    /\ non_counted_bt = FALSE
    /\ trace = << >>
    /\ result = NoResult
    /\ InitMachine
    /\ NoListing

NextPacket ==
    \/ CompileQuery
    \/ SubmitQuery
    \/ CompileDeclOp
    \/ CompileDeclUse
    \/ CompileDeclOther
    \/ CompileDeclClause
    \/ AddUserCode
    \/ AppendixIter
    \/ AppendixReturn

SpecPacket == InitPacket /\ [][NextPacket]_vars

NoChange == wam = wam0 /\ heap = heap0 /\ calls = << >>

\* C3: for a Fact / Rule / Predicate packet add_user_code is called at most
\* once, and only when the head has a permitted name, compile_relation and
\* compile_appendix succeeded and the code is not empty; until then, and in
\* every error outcome, the machine is as it was before the call.
C3_PacketAllOrNothing ==
    IsClause(tl) =>
        /\ Len(calls) <= 1
        /\ CallsOf("add_user_code") = 1..Len(calls)
        /\ calls # << >> =>
              /\ pc = "done"
              /\ result = "EntrySuccess"
              /\ tl.name # NoName
              /\ compile_relation(tl, FALSE).ok
              /\ \A k \in 1..Len(queue) : compile_relation(queue[k], FALSE).ok
              /\ qi = Len(queue)
              /\ calls[1].code = code
              /\ calls[1].code # << >>
        /\ pc # "done" => NoChange
        /\ pc = "done" /\ result # "EntrySuccess" =>
              /\ NoChange
              /\ result \in { "NamelessEntry", "ImpermissibleEntry(name/arity)",
                              "ImpermissibleEntry(no code generated.)",
                              "GeneratorError", "ExpectedRel" }
        /\ pc = "done" /\ tl.name = NoName => result = "NamelessEntry"

\* a queued unit failed after the clause and an earlier queued unit had been
\* compiled, in a machine that holds code and directory entries
C3_Witness ==
    /\ IsClause(tl)
    /\ pc = "done"
    /\ result = "GeneratorError"
    /\ qi = 1
    /\ Len(code) > Len(code0)
    /\ wam.code # << >>
    /\ wam = wam0

\* the code directory of the machine enters key at addr under "user"
InstalledAt(key, addr) ==
    /\ key \in DOMAIN wam.code_dir
    /\ heap[wam.code_dir[key]] = [ptr |-> Index(addr), module_name |-> "user"]

\* a Fact / Rule / Predicate packet is installed only if its name and arity
\* classify as one of the ClauseTypes of permitted, and then under (name,
\* arity); under any other ClauseType it ends in ImpermissibleEntry with the
\* machine unchanged
AdmittedOnly(permitted) ==
    IsClause(tl) /\ pc = "done" =>
        /\ calls # << >> =>
              /\ ClauseTypeFrom(tl) \in permitted
              /\ calls[1].arg = << tl.name, tl.arity >>
              /\ InstalledAt(<< tl.name, tl.arity >>, Len(wam0.code))
              /\ wam.code = wam0.code \o code
        /\ tl.name # NoName /\ ClauseTypeFrom(tl) \notin permitted =>
              /\ result = "ImpermissibleEntry(name/arity)"
              /\ NoChange

\* C5 (as stated): a packet is compiled and installed only if its name and
\* arity classify as a plain named relation; every other classification is
\* rejected with ImpermissibleEntry and nothing is installed.
C5_AdmittedOnlyIfNamed == AdmittedOnly({ "Named" })

\* C5 (amended): a packet is compiled and installed only if its name and
\* arity classify as ClauseType::Named or ClauseType::Op; every other
\* classification is rejected with ImpermissibleEntry and nothing is
\* installed.
C5_AdmittedOnlyIfNamedOrOp == AdmittedOnly({ "Named", "Op" })

\* a clause whose name classifies as ClauseType::Op was installed
C5_Witness ==
    /\ IsClause(tl)
    /\ pc = "done"
    /\ ClauseTypeFrom(tl) = "Op"
    /\ result = "EntrySuccess"
    /\ calls # << >>
    /\ InstalledAt(<< tl.name, tl.arity >>, Len(wam0.code))

\* the first error of the query path: that of the terms, else that of the
\* first queued unit compile_relation fails on
RECURSIVE FirstQueueError(_)
FirstQueueError(k) ==
    IF k > Len(queue) THEN "none"
    ELSE IF ~compile_relation(queue[k], FALSE).ok
         THEN compile_relation(queue[k], FALSE).err
         ELSE FirstQueueError(k + 1)

QueryError ==
    IF ~cg_compile_query(tl).ok THEN cg_compile_query(tl).err ELSE FirstQueueError(1)

\* C10: on the query path the terms and every queued unit are compiled with
\* non_counted_bt = false; if the terms or a queued unit fail, that error is
\* returned and submit_query is not called; otherwise submit_query is called
\* exactly once, with the spliced code and the variable dictionary, and what
\* it returns is the result.
C10_QueryPath ==
    tl.type = "Query" =>
        /\ non_counted_bt = FALSE
        /\ \A i \in 1..Len(code) : code[i].op = "Choice" => ~code[i].ncbt
        /\ wam = wam0 /\ heap = heap0
        /\ pc # "done" => calls = << >>
        /\ pc = "done" /\ QueryError # "none" =>
              /\ calls = << >>
              /\ result = QueryError
        /\ pc = "done" /\ QueryError = "none" =>
              /\ Len(calls) = 1
              /\ calls[1] = Call("submit_query", code, tl.vars, result)
              /\ result \in { "QuerySuccess", "QueryFailure" }
              /\ qi = Len(queue)
              /\ Len(code) = BlockStart(Len(queue) + 1)
              /\ SameButOffsets(SubSeq(code, 1, Len(code0)), tl.body)
              /\ \A k \in 1..Len(queue) :
                    SameButOffsets(Block(k), compile_relation(queue[k], FALSE).val)

\* a query with a variable and two queued units, one with a choice
\* instruction, was submitted and the machine answered QueryFailure
C10_Witness ==
    /\ tl.type = "Query"
    /\ pc = "done"
    /\ result = "QueryFailure"
    /\ tl.vars = { "X" }
    /\ Len(queue) = 2
    /\ queue[1].type = "Predicate"
    /\ Len(calls) = 1
    /\ calls[1].code = code
    /\ Len(code) > Len(code0)

-----------------------------------------------------------------------------
(* ListingCompiler, compile_listing, compile_user_module *)

\* default_op_dir()
DefaultOpDir == Entry(":-", "builtins")

\* ListingCompiler::get_module_name
get_module_name(mod) == IF mod.some THEN mod.name ELSE "user"

\* as_module_code_dir: the entries of a CodeDir as entries of a module's
as_module_code_dir(code_dir) == [k \in DOMAIN code_dir |-> code_dir[k]]

\* decl.0.first().and_then(|cl| cl.name().map(|name| (name, cl.arity())))
GroupKey(group) ==
    IF group.pred.name = NoName THEN Err("NamelessEntry")
    ELSE Ok(<< group.pred.name, group.pred.arity >>)

\* the address without the machine's code size: code.len() alone
GroupAddressInOutput(output, m) == Len(output)

\* let p = code.len() + self.wam.code_size();
GroupAddress(output, m) == Len(output) + code_size(m)

\* a lookup that finds no key
contains_none(preds, key) == FALSE

\* self.non_counted_bt_preds.contains(&(name.clone(), arity))
contains(preds, key) == key \in preds

\* the declarations the batch worker yields
ListingDecls ==
    { NonCountedBacktracking(FooKey), OpDecl("===", TRUE), UseModule("lists"),
      UseModule("nomod"), UseQualifiedModule("lists", { BarKey }),
      ModuleDecl("mymod", { FooKey }) }

Group(pred, q) == [pred |-> pred, queue |-> q]

\* the (Predicate, queue) groups of worker.results
ListingGroups ==
    { Group(Predicate("foo", "Named"), << >>),
      Group(Predicate("foo", "Named"), << Fact("aux", "Named") >>),
      Group(TopLevel("Predicate", "bar", "Named", << FactLine >>, FALSE), << >>),
      Group(TopLevel("Predicate", "bar", "Named", << FactLine >>, FALSE),
            << Rule("aux", "Named") >>),
      Group(Predicate(NoName, "none"), << >>),
      Group(PredicateErr("bar", "Named"), << >>),
      Group(Predicate("foo", "Named"), << Fact("aux", "Named"), Query >>),
      Group(Predicate("foo", "Named"), << Predicate("aux", "Named") >>),
      Group(TopLevel("Predicate", "bar", "Named", << FactLine >>, FALSE),
            << Predicate("foo", "Named") >>) }

listingFrame == << tl, wam0, heap0 >>

\* a bundle that starts from the machine's global directories
CompileUserModuleFromGlobal ==
    /\ pc = "compile_user_module"
    /\ IF HasModule(wam, "builtins")
       THEN /\ indices' = ImportAll([code_dir |-> wam.code_dir, op_dir |-> wam.op_dir],
                                    wam.modules["builtins"])
            /\ pc' = "consume"
            /\ UNCHANGED result
       ELSE /\ result' = "ModuleNotFound"
            /\ pc' = "done"
            /\ UNCHANGED indices
    /\ UNCHANGED << listingFrame, caller, code0, appendixVars, wam, heap, calls,
                    module, non_counted_bt_preds, results, decl, out, gi, p,
                    written, consumed >>

\* compile_user_module: the bundle is made and the builtins are imported
CompileUserModule ==
    /\ pc = "compile_user_module"
    /\ IF HasModule(wam, "builtins")
       THEN /\ indices' = ImportAll([code_dir |-> EmptyDir, op_dir |-> DefaultOpDir],
                                    wam.modules["builtins"])
            /\ pc' = "consume"
            /\ UNCHANGED result
       ELSE /\ result' = "ModuleNotFound"
            /\ pc' = "done"
            /\ UNCHANGED indices
    /\ UNCHANGED << listingFrame, caller, code0, appendixVars, wam, heap, calls,
                    module, non_counted_bt_preds, results, decl, out, gi, p,
                    written, consumed >>

\* a loop that consumes on without giving the declaration to process_decl
ConsumeDeclUnprocessed ==
    /\ pc = "consume"
    /\ consumed < MaxDecls
    /\ \E d \in ListingDecls :
          decl' = d
    /\ consumed' = consumed + 1
    /\ pc' = "consume"
    /\ UNCHANGED << listingFrame, caller, code0, appendixVars, machineVars,
                    result, indices, module, non_counted_bt_preds, results,
                    out, gi, p, written >>

\* worker.consume(&mut indices) is Ok(Some(decl))
ConsumeDecl ==
    /\ pc = "consume"
    /\ consumed < MaxDecls
    /\ \E d \in ListingDecls :
          decl' = d
    /\ consumed' = consumed + 1
    /\ pc' = "process_decl"
    /\ UNCHANGED << listingFrame, caller, code0, appendixVars, machineVars,
                    result, indices, module, non_counted_bt_preds, results,
                    out, gi, p, written >>

\* worker.consume(&mut indices) is Err(_)
ConsumeError ==
    /\ pc = "consume"
    /\ result' = "ParserError"
    /\ pc' = "done"
    /\ UNCHANGED << listingFrame, caller, code0, appendixVars, machineVars,
                    listingVars >>

\* worker.consume(&mut indices) is Ok(None): the loop ends and generate_code
\* is given worker.results
ConsumeEnd ==
    /\ pc = "consume"
    /\ results' \in SeqUpTo(ListingGroups, MaxGroups)
    /\ out' = << >>
    /\ gi' = 0
    /\ caller' = "generate_code"
    /\ pc' = "generate_code"
    /\ UNCHANGED << listingFrame, code0, appendixVars, machineVars, result,
                    indices, module, non_counted_bt_preds, decl, p, written,
                    consumed >>

processFrame == << listingFrame, caller, code0, appendixVars, machineVars,
                   results, decl, out, gi, p, written, consumed >>

\* Declaration::NonCountedBacktracking(name, arity)
ProcessNonCountedBacktracking ==
    /\ pc = "process_decl"
    /\ decl.kind = "NonCountedBacktracking"
    /\ non_counted_bt_preds' = non_counted_bt_preds \cup decl.keys
    /\ pc' = "consume"
    /\ UNCHANGED << processFrame, result, indices, module >>

\* an Op declaration that goes into the opened module's own operator
\* directory and leaves the bundle's alone
ProcessOpIntoModule ==
    /\ pc = "process_decl"
    /\ decl.kind = "Op"
    /\ IF decl.valid
       THEN /\ IF module.some
               THEN /\ module' = [module EXCEPT
                          !.op_dir = Extend(@, Entry(decl.name, module.name))]
                    /\ UNCHANGED indices
               ELSE /\ indices' = [indices EXCEPT
                          !.op_dir = Extend(@, Entry(decl.name, "user"))]
                    /\ UNCHANGED module
            /\ pc' = "consume"
            /\ UNCHANGED result
       ELSE /\ result' = "OpSubmitError"
            /\ pc' = "done"
            /\ UNCHANGED << indices, module >>
    /\ UNCHANGED << processFrame, non_counted_bt_preds >>

\* Declaration::Op(op_decl): op_decl.submit(self.get_module_name(),
\*                                          &mut indices.op_dir)
ProcessOp ==
    /\ pc = "process_decl"
    /\ decl.kind = "Op"
    /\ IF decl.valid
       THEN /\ indices' = [indices EXCEPT
                  !.op_dir = Extend(@, Entry(decl.name, get_module_name(module)))]
            /\ pc' = "consume"
            /\ UNCHANGED result
       ELSE /\ result' = "OpSubmitError"
            /\ pc' = "done"
            /\ UNCHANGED indices
    /\ UNCHANGED << processFrame, module, non_counted_bt_preds >>

\* a qualified import that takes every export, whatever keys were requested
ProcessUseAllExports ==
    /\ pc = "process_decl"
    /\ decl.kind \in { "UseModule", "UseQualifiedModule" }
    /\ IF HasModule(wam, decl.name)
       THEN LET submodule == wam.modules[decl.name]
            IN  /\ indices' = ImportAll(indices, submodule)
                /\ module' = IF module.some THEN ImportAll(module, submodule)
                             ELSE module
                /\ pc' = "consume"
                /\ UNCHANGED result
       ELSE /\ result' = "ModuleNotFound"
            /\ pc' = "done"
            /\ UNCHANGED << indices, module >>
    /\ UNCHANGED << processFrame, non_counted_bt_preds >>

\* Declaration::UseModule(name), Declaration::UseQualifiedModule(name, exports)
ProcessUse ==
    /\ pc = "process_decl"
    /\ decl.kind \in { "UseModule", "UseQualifiedModule" }
    /\ IF HasModule(wam, decl.name)
       THEN LET submodule == wam.modules[decl.name]
                ks == IF decl.kind = "UseModule" THEN submodule.exports
                      ELSE decl.keys
            IN  /\ indices' = ImportKeys(indices, submodule, ks)
                /\ module' = IF module.some THEN ImportKeys(module, submodule, ks)
                             ELSE module
                /\ pc' = "consume"
                /\ UNCHANGED result
       ELSE /\ result' = "ModuleNotFound"
            /\ pc' = "done"
            /\ UNCHANGED << indices, module >>
    /\ UNCHANGED << processFrame, non_counted_bt_preds >>

\* Declaration::Module without the test of self.module.is_none()
ProcessModuleReopen ==
    /\ pc = "process_decl"
    /\ decl.kind = "Module"
    /\ module' = NewModule(decl)
    /\ pc' = "consume"
    /\ UNCHANGED << processFrame, result, indices, non_counted_bt_preds >>

\* Declaration::Module(module_decl)
ProcessModule ==
    /\ pc = "process_decl"
    /\ decl.kind = "Module"
    /\ IF ~module.some
       THEN /\ module' = NewModule(decl)
            /\ pc' = "consume"
            /\ UNCHANGED result
       ELSE /\ result' = "InvalidModuleDecl"
            /\ pc' = "done"
            /\ UNCHANGED module
    /\ UNCHANGED << processFrame, indices, non_counted_bt_preds >>

\* generate_code, one group: its key, its flag, its address and its relation,
\* up to the call of compile_appendix(&mut decl_code, queue, non_counted_bt, ..)
GenerateGroup ==
    /\ pc = "generate_code"
    /\ gi < Len(results)
    /\ LET group == results[gi + 1]
           key == GroupKey(group)
           flag == contains(non_counted_bt_preds, key.val)
           r == compile_relation(group.pred, flag)
       IN  IF ~key.ok
           THEN /\ result' = key.err
                /\ pc' = "done"
                /\ UNCHANGED << code, code0, queue, qi, trace, non_counted_bt, p >>
           ELSE IF ~r.ok
           THEN /\ result' = r.err
                /\ pc' = "done"
                /\ p' = GroupAddress(out, wam)
                /\ non_counted_bt' = flag
                /\ UNCHANGED << code, code0, queue, qi, trace >>
           ELSE /\ p' = GroupAddress(out, wam)
                /\ non_counted_bt' = flag
                /\ code' = r.val
                /\ code0' = r.val
                /\ queue' = group.queue
                /\ qi' = 0
                /\ trace' = << >>
                /\ pc' = "compile_appendix"
                /\ UNCHANGED result
    /\ UNCHANGED << listingFrame, caller, machineVars, indices, module,
                    non_counted_bt_preds, results, decl, out, gi, written,
                    consumed >>

\* an index write that puts a new cell under the key whether or not the
\* directory already holds one
SetCodeIndexReplace ==
    /\ pc = "set_code_index"
    /\ LET key == GroupKey(results[gi + 1]).val
           idx == Len(heap) + 1
           cell == [ptr |-> Index(p), module_name |-> get_module_name(module)]
       IN  /\ indices' = [indices EXCEPT !.code_dir = Extend(@, Entry(key, idx))]
           /\ heap' = Append(heap, cell)
           /\ written' = Append(written,
                 [key |-> key, idx |-> idx, ptr |-> heap'[idx].ptr, block |-> code])
    /\ out' = out \o code
    /\ gi' = gi + 1
    /\ pc' = "generate_code"
    /\ UNCHANGED << listingFrame, caller, code0, appendixVars, wam, calls, result,
                    module, non_counted_bt_preds, results, decl, p, consumed >>

\* let idx = code_dir.entry((name, arity)).or_insert(CodeIndex::default());
\* set_code_index!(idx, IndexPtr::Index(p), self.get_module_name());
\* code.extend(decl_code.into_iter());
SetCodeIndex ==
    /\ pc = "set_code_index"
    /\ LET key == GroupKey(results[gi + 1]).val
           fresh == key \notin DOMAIN indices.code_dir
           idx == IF fresh THEN Len(heap) + 1 ELSE indices.code_dir[key]
           cell == [ptr |-> Index(p), module_name |-> get_module_name(module)]
       IN  /\ indices' = IF fresh
                         THEN [indices EXCEPT !.code_dir = Extend(@, Entry(key, idx))]
                         ELSE indices
           /\ heap' = IF fresh THEN Append(heap, cell)
                      ELSE [heap EXCEPT ![idx] = cell]
           /\ written' = Append(written,
                 [key |-> key, idx |-> idx, ptr |-> heap'[idx].ptr, block |-> code])
    /\ out' = out \o code
    /\ gi' = gi + 1
    /\ pc' = "generate_code"
    /\ UNCHANGED << listingFrame, caller, code0, appendixVars, wam, calls, result,
                    module, non_counted_bt_preds, results, decl, p, consumed >>

\* Ok(code): compile_listing goes on to compiler.add_code(code, indices)
GenerateReturn ==
    /\ pc = "generate_code"
    /\ gi = Len(results)
    /\ pc' = "add_code"
    /\ UNCHANGED << listingFrame, caller, code0, appendixVars, machineVars,
                    result, listingVars >>

\* Machine::add_module: the module is registered and its code appended
add_module(m, mod, c) ==
    [m EXCEPT !.code = @ \o c, !.modules = Extend(@, Entry(mod.name, mod))]

\* Machine::add_batched_code
add_batched_code(m, c, code_dir) ==
    [m EXCEPT !.code = @ \o c, !.code_dir = Extend(@, code_dir)]

\* Machine::add_batched_ops
add_batched_ops(m, op_dir) == [m EXCEPT !.op_dir = Extend(@, op_dir)]

\* add_code without the test of self.module: always the batched additions
AddCodeBatchedAlways ==
    /\ pc = "add_code"
    /\ LET code_dir == indices.code_dir
           op_dir == indices.op_dir
       IN  /\ indices' = [code_dir |-> EmptyDir, op_dir |-> EmptyDir]
           /\ wam' = add_batched_ops(add_batched_code(wam, out, code_dir), op_dir)
           /\ calls' = calls \o
                 << Call("add_batched_code", out, code_dir, "()"),
                    Call("add_batched_ops", << >>, op_dir, "()") >>
    /\ result' = "EntrySuccess"
    /\ pc' = "done"
    /\ UNCHANGED << listingFrame, caller, code0, appendixVars, heap, module,
                    non_counted_bt_preds, results, decl, out, gi, p, written,
                    consumed >>

\* ListingCompiler::add_code, then EvalSession::EntrySuccess
AddCode ==
    /\ pc = "add_code"
    /\ LET code_dir == indices.code_dir
           op_dir == indices.op_dir
       IN  /\ indices' = [code_dir |-> EmptyDir, op_dir |-> EmptyDir]
           /\ IF module.some
              THEN LET mod == [module EXCEPT
                           !.code_dir = Extend(@, as_module_code_dir(code_dir)),
                           !.op_dir = Extend(@, op_dir)]
                   IN  /\ wam' = add_module(wam, mod, out)
                       /\ calls' = Append(calls, Call("add_module", out, mod, "()"))
              ELSE /\ wam' = add_batched_ops(add_batched_code(wam, out, code_dir),
                                             op_dir)
                   /\ calls' = calls \o
                         << Call("add_batched_code", out, code_dir, "()"),
                            Call("add_batched_ops", << >>, op_dir, "()") >>
    /\ result' = "EntrySuccess"
    /\ pc' = "done"
    /\ UNCHANGED << listingFrame, caller, code0, appendixVars, heap, module,
                    non_counted_bt_preds, results, decl, out, gi, p, written,
                    consumed >>

-----------------------------------------------------------------------------
(* Spec: one call of compile_user_module *)

Init ==
    /\ pc = "compile_user_module"
    /\ caller = "compile_listing"
    /\ tl = NoUnit
    /\ code = << >>
    /\ code0 = << >>
    /\ result = NoResult
    /\ NoAppendix
    /\ InitMachine
    /\ NoListing

Next ==
    \/ CompileUserModule
    \/ ConsumeDecl
    \/ ConsumeError
    \/ ConsumeEnd
    \/ ProcessNonCountedBacktracking
    \/ ProcessOp
    \/ ProcessUse
    \/ ProcessModule
    \/ GenerateGroup
    \/ AppendixIter
    \/ AppendixReturn
    \/ SetCodeIndex
    \/ GenerateReturn
    \/ AddCode

Spec == Init /\ [][Next]_vars

\* the number of Lines the units q[1..k] compile to, each on its own
RECURSIVE QueueLen(_, _)
QueueLen(q, k) ==
    IF k = 0 THEN 0
    ELSE QueueLen(q, k - 1) + Len(compile_relation(q[k], FALSE).val)

\* l_i: the number of Lines group i (relation plus appendix queue) compiles to
GroupLen(i) ==
    Len(compile_relation(results[i].pred, FALSE).val)
        + QueueLen(results[i].queue, Len(results[i].queue))

\* l_1 + ... + l_n
RECURSIVE GroupsLen(_)
GroupsLen(n) == IF n = 0 THEN 0 ELSE GroupsLen(n - 1) + GroupLen(n)

\* the blocks of the first n index writes, one after the other
RECURSIVE Blocks(_)
Blocks(n) == IF n = 0 THEN << >> ELSE Blocks(n - 1) \o written[n].block

\* C1: with L the length of the machine's code segment when the listing began
\* and l_1..l_n the lengths the groups compile to, the Code Index entry
\* written for group i holds address L + l_1 + ... + l_(i-1), and the code
\* handed to the commit is the blocks of the n groups in group order, of total
\* length l_1 + ... + l_n.
C1_AddressInvariant ==
    caller = "generate_code" =>
        /\ Len(written) = gi
        /\ \A i \in 1..gi :
              /\ written[i].key = GroupKey(results[i]).val
              /\ written[i].ptr = Index(Len(wam0.code) + GroupsLen(i - 1))
              /\ Len(written[i].block) = GroupLen(i)
              /\ heap[written[i].idx].ptr.tag = "Index"
              /\ (\A j \in (i + 1)..gi : written[j].key # written[i].key) =>
                    heap[written[i].idx].ptr = written[i].ptr
        /\ out = Blocks(gi)
        /\ Len(out) = GroupsLen(gi)
        /\ pc = "add_code" => gi = Len(results)
        /\ result = "EntrySuccess" =>
              /\ gi = Len(results)
              /\ calls[1].code = out
              /\ wam.code = wam0.code \o out

\* a listing of two groups with different keys was committed: the second
\* entry holds the address after the machine's earlier code and the four
\* Lines of the first group
C1_Witness ==
    /\ pc = "done"
    /\ result = "EntrySuccess"
    /\ Len(results) = 2
    /\ written[1].key # written[2].key
    /\ Len(wam0.code) >= 3
    /\ Len(written[1].block) = 4
    /\ written[2].ptr = Index(Len(wam0.code) + 4)
    /\ heap[written[2].idx].ptr = written[2].ptr

\* the CodeIndex cells the stores of machine m lead to
ReachableCells(m) ==
    { m.code_dir[k] : k \in DOMAIN m.code_dir }
        \cup UNION { { m.modules[n].code_dir[k] : k \in DOMAIN m.modules[n].code_dir } :
                     n \in DOMAIN m.modules }

\* C2: if the listing fails before the commit, the machine's code segment,
\* code directory, operator directory and module registry, and the address
\* and module name in every CodeIndex cell those stores lead to, are as they
\* were before the call.
C2_ListingAtomic ==
    pc = "done" /\ result # "EntrySuccess" =>
        /\ wam = wam0
        /\ calls = << >>
        /\ \A c \in ReachableCells(wam0) : heap[c] = heap0[c]

\* C4: when a Module declaration is processed and a module is already open,
\* the listing ends there with InvalidModuleDecl, nothing having been
\* committed: the machine's code, directories, module registry and CodeIndex
\* cells are as before the call.
C4_SecondModuleDecl ==
    [][ (pc = "process_decl" /\ decl.kind = "Module" /\ module.some) =>
            /\ pc' = "done"
            /\ result' = "InvalidModuleDecl"
            /\ wam' = wam0
            /\ heap' = heap0
            /\ calls' = << >>
            /\ module' = module ]_vars

\* the listing opened a module, imported lists into it and the bundle, and
\* stopped at a second module header
C4_Witness ==
    /\ pc = "done"
    /\ result = "InvalidModuleDecl"
    /\ consumed = 3
    /\ decl.kind = "Module"
    /\ module.some
    /\ BarKey \in DOMAIN module.code_dir
    /\ wam = wam0
    /\ "lists" \in DOMAIN wam.modules


\* the directories of after are those of before plus the entries submodule
\* holds under the keys ks, and the operators those keys name: no other entry
\* came in, none went out, none of the others changed
MergedExactly(before, after, submodule, ks) ==
    /\ DOMAIN after.code_dir = DOMAIN before.code_dir \cup ks
    /\ \A k \in ks : after.code_dir[k] = submodule.code_dir[k]
    /\ \A k \in DOMAIN before.code_dir \ ks : after.code_dir[k] = before.code_dir[k]
    /\ DOMAIN before.op_dir \subseteq DOMAIN after.op_dir
    /\ \A o \in DOMAIN after.op_dir :
          \/ /\ o \in DOMAIN submodule.op_dir
             /\ \E k \in ks : k[1] = o
             /\ after.op_dir[o] = submodule.op_dir[o]
          \/ /\ o \in DOMAIN before.op_dir
             /\ after.op_dir[o] = before.op_dir[o]
    /\ \A o \in DOMAIN submodule.op_dir :
          (\E k \in ks : k[1] = o) => o \in DOMAIN after.op_dir

\* C11: a UseModule or UseQualifiedModule declaration naming a module that
\* is not in the registry ends the listing with ModuleNotFound, the bundle
\* and the module in progress unchanged. When the module is there, the bundle
\* becomes its earlier entries plus the module's exports (every export, or
\* the requested keys among them) and nothing else; an opened module gets the
\* same entries, and with no module opened only the bundle changes.
C11_UseModule ==
    [][ (pc = "process_decl" /\ decl.kind \in { "UseModule", "UseQualifiedModule" }) =>
            IF decl.name \notin DOMAIN wam.modules
            THEN /\ pc' = "done"
                 /\ result' = "ModuleNotFound"
                 /\ indices' = indices
                 /\ module' = module
            ELSE LET submodule == wam.modules[decl.name]
                     ks == IF decl.kind = "UseModule" THEN submodule.exports
                           ELSE decl.keys \cap submodule.exports
                 IN  /\ pc' = "consume"
                     /\ MergedExactly(indices, indices', submodule, ks)
                     /\ IF module.some
                        THEN /\ MergedExactly(module, module', submodule, ks)
                             /\ module'.name = module.name
                             /\ module'.exports = module.exports
                        ELSE module' = module ]_vars

\* a module was opened and bar/1 alone was then imported from lists, which
\* also exports baz/2 and the operator baz: the bundle and the opened module
\* hold lists' cell under bar/1 and neither baz/2 nor the operator
C11_Witness ==
    /\ pc = "consume"
    /\ decl = UseQualifiedModule("lists", { BarKey })
    /\ module.some
    /\ HasModule(wam, "lists")
    /\ indices.code_dir[BarKey] = wam.modules["lists"].code_dir[BarKey]
    /\ module.code_dir[BarKey] = wam.modules["lists"].code_dir[BarKey]
    /\ BazKey \notin DOMAIN indices.code_dir
    /\ BazKey \notin DOMAIN module.code_dir
    /\ "baz" \notin DOMAIN indices.op_dir

\* an Op declaration that op_decl.submit accepts is being processed
SubmittingOp == pc = "process_decl" /\ decl.kind = "Op" /\ decl.valid

\* C12 as stated: an Op declaration processed while a module is open enters
\* the operator into that module's own operator directory; with no module
\* open it enters it into the bundle's operator directory.
C12_OpIntoActiveDirectory ==
    [][ SubmittingOp =>
            IF module.some
            THEN decl.name \in DOMAIN module'.op_dir
            ELSE decl.name \in DOMAIN indices'.op_dir ]_vars

\* C12, amended: an Op declaration is entered into the bundle's operator
\* directory whether or not a module is open, under the opened module's name
\* or under "user"; the bundle's other entries, its code directory and the
\* opened module, its operator directory included, are left as they were.
C12_OpIntoBundle ==
    [][ SubmittingOp =>
            /\ pc' = "consume"
            /\ DOMAIN indices'.op_dir = DOMAIN indices.op_dir \cup { decl.name }
            /\ indices'.op_dir[decl.name] =
                  (IF module.some THEN module.name ELSE "user")
            /\ \A o \in DOMAIN indices.op_dir \ { decl.name } :
                  indices'.op_dir[o] = indices.op_dir[o]
            /\ indices'.code_dir = indices.code_dir
            /\ module' = module ]_vars

\* the operator === was declared after the header of module mymod: the
\* bundle holds it under mymod, the module's own operator directory does not
C12_Witness ==
    /\ pc = "consume"
    /\ decl.kind = "Op"
    /\ module.some
    /\ module.name = "mymod"
    /\ indices.op_dir["==="] = "mymod"
    /\ "===" \notin DOMAIN module.op_dir

\* merged is dir with every entry of src put into it
MergedInto(merged, dir, src) ==
    /\ DOMAIN merged = DOMAIN dir \cup DOMAIN src
    /\ \A k \in DOMAIN src : merged[k] = src[k]
    /\ \A k \in DOMAIN dir \ DOMAIN src : merged[k] = dir[k]

\* C13: the machine's installation primitives are called in the commit that
\* follows a successful generate_code and nowhere else, and the listing ends
\* with it. With a module opened the one call is add-module, given the
\* generated code and the module with the bundle's code and operator
\* directories merged into its own; otherwise the calls are the batched code
\* addition, given the code and the bundle's code directory, and then the
\* batched operator addition, given the bundle's operator directory. Either
\* way the bundle's two directories are empty afterwards.
C13_CommitOnce ==
    [][ IF pc = "add_code"
        THEN /\ calls = << >>
             /\ pc' = "done"
             /\ result' = "EntrySuccess"
             /\ indices'.code_dir = EmptyDir
             /\ indices'.op_dir = EmptyDir
             /\ IF module.some
                THEN /\ Len(calls') = 1
                     /\ calls'[1].fn = "add_module"
                     /\ calls'[1].code = out
                     /\ calls'[1].arg.name = module.name
                     /\ calls'[1].arg.exports = module.exports
                     /\ MergedInto(calls'[1].arg.code_dir, module.code_dir,
                                   indices.code_dir)
                     /\ MergedInto(calls'[1].arg.op_dir, module.op_dir,
                                   indices.op_dir)
                ELSE /\ Len(calls') = 2
                     /\ calls'[1].fn = "add_batched_code"
                     /\ calls'[1].code = out
                     /\ calls'[1].arg = indices.code_dir
                     /\ calls'[2].fn = "add_batched_ops"
                     /\ calls'[2].arg = indices.op_dir
        ELSE calls' = calls ]_vars

\* a listing with a module header, an operator and a group for foo/1 was
\* committed: add_module was called once, with the four Lines and a module
\* holding the operator and foo/1, and the bundle is empty
C13_Witness ==
    /\ pc = "done"
    /\ result = "EntrySuccess"
    /\ module.some
    /\ Len(calls) = 1
    /\ calls[1].fn = "add_module"
    /\ Len(calls[1].code) >= 3
    /\ "===" \in DOMAIN calls[1].arg.op_dir
    /\ FooKey \in DOMAIN calls[1].arg.code_dir
    /\ "===" \notin DOMAIN module.op_dir
    /\ indices = [code_dir |-> EmptyDir, op_dir |-> EmptyDir]

\* the positions of generate_code, compile_appendix within it and add_code
Generating == pc \in { "generate_code", "compile_appendix", "set_code_index", "add_code" }

\* the Lines of the relation of group i in the block written for it
RelationLines(i) ==
    { j \in 1..Len(written[i].block) :
        j <= Len(compile_relation(results[i].pred, FALSE).val) }

\* C14: the set of flagged keys is exactly the keys of the
\* NonCountedBacktracking declarations processed so far; no declaration is
\* consumed or processed once code generation has begun, so the set a group
\* is looked up in holds every such declaration of the listing, wherever it
\* stood; and the relation of every group is compiled with the flag true if
\* and only if the group's key is in that set.
C14_FlagFromWholeListing ==
    /\ [][ /\ non_counted_bt_preds' =
                 (IF pc = "process_decl" /\ decl.kind = "NonCountedBacktracking"
                  THEN non_counted_bt_preds \cup decl.keys
                  ELSE non_counted_bt_preds)
           /\ Generating => pc' \notin { "consume", "process_decl" }
           /\ (pc = "generate_code" /\ pc' = "compile_appendix") =>
                 non_counted_bt' =
                    (GroupKey(results[gi + 1]).val \in non_counted_bt_preds) ]_vars
    /\ [](\A i \in 1..Len(written) : \A j \in RelationLines(i) :
              written[i].block[j].op = "Choice" =>
                  written[i].block[j].ncbt = (written[i].key \in non_counted_bt_preds))

\* foo/1 was declared and bar/1 was not: the choice instruction of foo/1's
\* relation carries the flag, and a listing without the declaration is
\* possible too (the flag of the group is then false)
C14_Witness ==
    /\ pc = "done"
    /\ result = "EntrySuccess"
    /\ non_counted_bt_preds = { FooKey }
    /\ Len(written) = 2
    /\ written[1].key = BarKey
    /\ written[2].key = FooKey
    /\ written[2].block[1] = ChoiceLine(TRUE)

\* the loop of compile_listing: the worker is at work or a declaration it
\* yielded is being processed
InLoop == pc \in { "consume", "process_decl" }

\* what applying declaration d leaves in the bundle b of a listing on machine m
AppliedTo(b, d, m) ==
    CASE d.kind = "Op" -> d.name \in DOMAIN b.op_dir
      [] d.kind = "UseModule" ->
            m.modules[d.name].exports \subseteq DOMAIN b.code_dir
      [] d.kind = "UseQualifiedModule" ->
            (d.keys \cap m.modules[d.name].exports) \subseteq DOMAIN b.code_dir
      [] OTHER -> TRUE

\* C15: a declaration the worker yields goes to process_decl before the
\* worker consumes again, and when the worker consumes again the bundle holds
\* what the declaration put there (the operator, the imported keys), as it
\* holds everything earlier declarations put there. A failing consume or
\* process_decl ends the listing there and then: nothing more is consumed or
\* processed, no index was written, no code generated and nothing committed.
C15_DeclAppliedBeforeNextConsume ==
    [][ /\ (pc = "consume" /\ consumed' # consumed) =>
              (pc' = "process_decl" /\ consumed' = consumed + 1)
        /\ pc = "process_decl" =>
              /\ consumed' = consumed
              /\ decl' = decl
              /\ pc' \in { "consume", "done" }
              /\ pc' = "consume" => AppliedTo(indices', decl, wam)
        /\ (InLoop /\ pc' \in { "consume", "process_decl" }) =>
              /\ DOMAIN indices.op_dir \subseteq DOMAIN indices'.op_dir
              /\ DOMAIN indices.code_dir \subseteq DOMAIN indices'.code_dir
        /\ (InLoop /\ pc' = "done") =>
              /\ result' \notin { NoResult, "EntrySuccess" }
              /\ written' = << >>
              /\ out' = << >>
              /\ calls' = << >>
              /\ wam' = wam0
        /\ pc # "done" ]_vars

\* the operator === was declared first and was in the bundle when the text
\* after it was consumed; the declaration consumed next named a module that
\* does not exist and the listing ended there, nothing generated
C15_Witness ==
    /\ pc = "done"
    /\ result = "ModuleNotFound"
    /\ consumed = 2
    /\ decl = UseModule("nomod")
    /\ "===" \in DOMAIN indices.op_dir
    /\ written = << >>
    /\ out = << >>
    /\ calls = << >>

\* the last of the first n groups that has key k (0 if there is none)
RECURSIVE LastGroup(_, _)
LastGroup(k, n) ==
    IF n = 0 THEN 0
    ELSE IF GroupKey(results[n]).val = k THEN n ELSE LastGroup(k, n - 1)

\* the directories of machine m that lead to cell c
Sharing(m, c) ==
    { << "global", k >> : k \in { k \in DOMAIN m.code_dir : m.code_dir[k] = c } }
        \cup UNION { { << n, k >> : k \in { k \in DOMAIN m.modules[n].code_dir :
                                                m.modules[n].code_dir[k] = c } } :
                     n \in DOMAIN m.modules }

\* C16: generate_code writes the working directory only where it enters a
\* group's address: the key's entry is made if there was none and otherwise
\* kept, its cell rewritten with the group's address and the opened module's
\* name (or user), so that a cell the directory shares with others shows them
\* the new address; no entry is removed, no other entry and no other cell
\* changes. Once every group has been compiled, each key a group defines has
\* the address of the last group with that key.
C16_IndexOfLastGroup ==
    /\ [][ IF pc = "set_code_index"
           THEN LET key == GroupKey(results[gi + 1]).val
                IN  /\ DOMAIN indices'.code_dir = DOMAIN indices.code_dir \cup { key }
                    /\ \A k \in DOMAIN indices.code_dir :
                          indices'.code_dir[k] = indices.code_dir[k]
                    /\ key \notin DOMAIN indices.code_dir =>
                          indices'.code_dir[key] \notin 1..Len(heap)
                    /\ heap'[indices'.code_dir[key]] =
                          [ptr |-> Index(p), module_name |-> get_module_name(module)]
                    /\ \A c \in 1..Len(heap) :
                          c # indices'.code_dir[key] => heap'[c] = heap[c]
                    /\ indices'.op_dir = indices.op_dir
           ELSE pc \in { "generate_code", "compile_appendix" } =>
                    (indices' = indices /\ heap' = heap) ]_vars
    /\ [](pc = "add_code" =>
            \A i \in 1..Len(results) :
               LET key == GroupKey(results[i]).val
                   last == LastGroup(key, Len(results))
                   c == indices.code_dir[key]
               IN  /\ key \in DOMAIN indices.code_dir
                   /\ heap[c] = [ptr |-> Index(Len(wam0.code) + GroupsLen(last - 1)),
                                 module_name |-> get_module_name(module)]
                   /\ written[last].idx = c)

\* foo/1, imported from builtins, was defined by two groups and bar/1,
\* imported from lists, by none: the cell the bundle shares with builtins and
\* the global directory holds the second group's address, and bar/1's entry
\* and cell are as they were
C16_Witness ==
    /\ pc = "add_code"
    /\ Len(results) = 2
    /\ written[1].key = FooKey
    /\ written[2].key = FooKey
    /\ indices.code_dir[FooKey] = wam0.modules["builtins"].code_dir[FooKey]
    /\ << "global", FooKey >> \in Sharing(wam, indices.code_dir[FooKey])
    /\ << "builtins", FooKey >> \in Sharing(wam, indices.code_dir[FooKey])
    /\ heap[indices.code_dir[FooKey]].ptr = written[2].ptr
    /\ written[2].ptr # written[1].ptr
    /\ heap0[indices.code_dir[FooKey]].ptr = Index(0)
    /\ BarKey \in DOMAIN indices.code_dir
    /\ heap[indices.code_dir[BarKey]] = heap0[indices.code_dir[BarKey]]

-----------------------------------------------------------------------------
(* SpecCompile: one call of compile_packet or one call of compile_user_module *)

InitCompile == InitPacket \/ Init

NextCompile ==
    \/ CompileQuery
    \/ SubmitQuery
    \/ CompileDeclOp
    \/ CompileDeclUse
    \/ CompileDeclOther
    \/ CompileDeclClause
    \/ AddUserCode
    \/ CompileUserModule
    \/ ConsumeDecl
    \/ ConsumeError
    \/ ConsumeEnd
    \/ ProcessNonCountedBacktracking
    \/ ProcessOp
    \/ ProcessUse
    \/ ProcessModule
    \/ GenerateGroup
    \/ AppendixIter
    \/ AppendixReturn
    \/ SetCodeIndex
    \/ GenerateReturn
    \/ AddCode

SpecCompile == InitCompile /\ [][NextCompile]_vars

\* the keys of the queued units that are not the key k
AuxKeys(q, k) ==
    { << q[i].name, q[i].arity >> : i \in 1..Len(q) } \ { k }

\* code is the Code of the primary unit followed by the Code of each queued
\* unit in turn, every one compiled with flag, up to resolved offsets
UnitsCompiledWith(primary, flag) ==
    /\ SameButOffsets(SubSeq(code, 1, Len(code0)),
                      compile_relation(primary, flag).val)
    /\ \A k \in 1..Len(queue) :
          SameButOffsets(Block(k), compile_relation(queue[k], flag).val)
    /\ Len(code) = BlockStart(Len(queue) + 1)

\* a group's block is complete: relation and queued units were compiled with
\* the flag of the group's key and the block begins at the group's address
GroupCompiledWithItsFlag ==
    (caller = "generate_code" /\ pc = "set_code_index") =>
        LET group == results[gi + 1]
            flag == GroupKey(group).val \in non_counted_bt_preds
        IN  /\ non_counted_bt = flag
            /\ queue = group.queue
            /\ UnitsCompiledWith(group.pred, flag)
            /\ p = Len(wam0.code) + Len(out)

\* at top level nothing is compiled with the flag true
TopLevelCompiledWithFalse ==
    /\ (caller \in { "compile_decl", "compile_query" }
           /\ pc \in { "compile_appendix", "add_user_code", "submit_query" }) =>
        /\ non_counted_bt = FALSE
        /\ \A i \in 1..Len(code) : code[i].ncbt = FALSE
    /\ (caller = "compile_decl" /\ pc = "add_user_code") =>
        UnitsCompiledWith(tl, FALSE)

\* C17: when a group's block is complete, its relation and every unit of
\* its appendix queue were compiled with the flag of the group's key, the
\* units' Lines following the relation's in queue order, the block beginning
\* at the address entered for the group; there is one index write per group,
\* and it gives no queued unit an entry of its own and changes no cell such a
\* unit's key leads to. At top level the clause (or query) and every queued
\* unit are compiled with the flag false.
C17_AuxiliaryUnits ==
    /\ []GroupCompiledWithItsFlag
    /\ [](caller = "generate_code" => Len(written) = gi)
    /\ []TopLevelCompiledWithFalse
    /\ [][ pc = "set_code_index" =>
              \A k \in AuxKeys(queue, GroupKey(results[gi + 1]).val) :
                 /\ (k \in DOMAIN indices'.code_dir) = (k \in DOMAIN indices.code_dir)
                 /\ k \in DOMAIN indices.code_dir =>
                       /\ indices'.code_dir[k] = indices.code_dir[k]
                       /\ heap'[indices.code_dir[k]] = heap[indices.code_dir[k]] ]_vars

\* foo/1 is flagged and aux/1 is not: the choice instruction of the queued
\* aux/1, fourth Line of foo/1's block, carries foo/1's flag, and after the
\* group's address was entered there is no entry for aux/1
C17_Witness ==
    /\ caller = "generate_code"
    /\ pc = "generate_code"
    /\ gi = 1
    /\ non_counted_bt_preds = { FooKey }
    /\ written[1].key = FooKey
    /\ results[1].queue = << Predicate("aux", "Named") >>
    /\ written[1].block[1] = ChoiceLine(TRUE)
    /\ written[1].block[4] = ChoiceLine(TRUE)
    /\ Len(written[1].block) = 6
    /\ << "aux", 1 >> \notin DOMAIN indices.code_dir

\* the operators of module m that its exported keys name
ExportedOps(m) == { o \in DOMAIN m.op_dir : \E k \in m.exports : k[1] = o }

\* C18: compile_user_module on a machine without a module builtins ends
\* with ModuleNotFound, nothing consumed and the machine as it was. With the
\* module there, the bundle the listing starts from holds the code entries of
\* builtins' exports and nothing else, and the default operators plus the
\* operators of builtins' exports and nothing else: what the machine's global
\* code and operator directories hold besides is not in it.
C18_FreshBundle ==
    [][ pc = "compile_user_module" =>
            IF "builtins" \notin DOMAIN wam.modules
            THEN /\ pc' = "done"
                 /\ result' = "ModuleNotFound"
                 /\ consumed' = 0
                 /\ wam' = wam0
                 /\ heap' = heap0
                 /\ calls' = << >>
            ELSE LET builtins == wam.modules["builtins"]
                 IN  /\ pc' = "consume"
                     /\ consumed' = 0
                     /\ DOMAIN indices'.code_dir = builtins.exports
                     /\ \A k \in builtins.exports :
                           indices'.code_dir[k] = builtins.code_dir[k]
                     /\ DOMAIN indices'.op_dir =
                           DOMAIN DefaultOpDir \cup ExportedOps(builtins)
                     /\ \A o \in ExportedOps(builtins) :
                           indices'.op_dir[o] = builtins.op_dir[o]
                     /\ \A o \in DOMAIN DefaultOpDir \ ExportedOps(builtins) :
                           indices'.op_dir[o] = DefaultOpDir[o] ]_vars

\* the machine's global directories hold usr/0 and the operator +++ of
\* earlier top-level code: the bundle the listing starts from holds foo/1 of
\* builtins and the default operator, and neither usr/0 nor +++
C18_Witness ==
    /\ pc = "consume"
    /\ consumed = 0
    /\ UserKey \in DOMAIN wam.code_dir
    /\ "+++" \in DOMAIN wam.op_dir
    /\ UserKey \notin DOMAIN indices.code_dir
    /\ "+++" \notin DOMAIN indices.op_dir
    /\ indices.code_dir[FooKey] = wam.modules["builtins"].code_dir[FooKey]
    /\ ":-" \in DOMAIN indices.op_dir

=============================================================================
